---- MODULE Spec2Model ----
(***************************************************************************)
(* Model of src/intuition_model.py: the value and policy estimators of a  *)
(* game-playing search agent (UniformPolicy, GBDTPolicy, NaiveValue,      *)
(* NaivePolicy).                                                          *)
(*                                                                        *)
(* Python numbers are records [t, n, d]: t is the Python type ("int",     *)
(* "float", "float32" for numpy.float32, "nan" for a numpy nan), n/d the  *)
(* value as a reduced fraction (d > 0).  Floating-point rounding is not   *)
(* modelled: arithmetic is exact on the rationals.  A label that is not a *)
(* number (None) has t = "NoneType".                                      *)
(* A Python dict is a record [none, map]: none = TRUE is the dataclass    *)
(* default None, otherwise map is the function from key tuples to values. *)
(***************************************************************************)
EXTENDS Integers, Sequences, FiniteSets, TLC

VARIABLES
    state_action_mass,    \* NaivePolicy.state_action_mass
    state_action_weight,  \* NaivePolicy.state_action_weight
    state_visits,         \* NaiveValue.state_visits
    state_wins,           \* NaiveValue.state_wins
    value_file,           \* the file NaiveValue.save writes and load reads
    policy_file,          \* the file NaivePolicy.save writes and load reads
    call                  \* the last call made: its name, arguments and outcome

vars == <<state_action_mass, state_action_weight, state_visits, state_wins,
          value_file, policy_file, call>>

\* ---------------------------------------------------------------- bounds
MaxActions == 2       \* actions are 0..MaxActions-1; longest label vector
MaxFeature == 0       \* a feature of a tabular key is 0..MaxFeature
MaxBlocks == 2        \* a training set is at most MaxBlocks runs of one sample
MaxBatch == 2         \* rows in a features batch
\* the pruning threshold written as the literal 5 in both train methods
MinSupport == 5

\* ------------------------------------------------------- Python numbers
RECURSIVE GCD(_, _)
GCD(a, b) == IF b = 0 THEN a ELSE GCD(b, a % b)

Abs(x) == IF x < 0 THEN -x ELSE x

Num(t, n, d) == LET g == GCD(Abs(n), d) IN [t |-> t, n |-> n \div g, d |-> d \div g]

PyInt(i) == [t |-> "int", n |-> i, d |-> 1]

PyFloat(n, d) == Num("float", n, d)

NoneLabel == [t |-> "NoneType", n |-> 0, d |-> 1]

NaN == [t |-> "nan", n |-> 0, d |-> 1]

IsNumber(x) == x.t \in {"int", "float", "float32"}

\* a + b: float when either operand is a float
PyAdd(a, b) ==
    Num(IF a.t = "int" /\ b.t = "int" THEN "int" ELSE "float",
        a.n * b.d + b.n * a.d, a.d * b.d)

\* a / b (true division) for b # 0: always a float
PyTrueDiv(a, b) ==
    Num("float", (IF b.n < 0 THEN -1 ELSE 1) * a.n * b.d, a.d * Abs(b.n))

\* v <= c for an integer literal c
PyLeq(v, c) == v.n <= c * v.d

\* same numeric value, whatever the types (Python's ==  on numbers)
NumEq(a, b) == IsNumber(a) /\ IsNumber(b) /\ a.n = b.n /\ a.d = b.d

RECURSIVE SumSeq(_)
SumSeq(s) == IF s = <<>> THEN PyInt(0) ELSE PyAdd(s[1], SumSeq(Tail(s)))

\* --------------------------------------------------------- Python dicts
EmptyMap == [k \in {} |-> PyInt(0)]

NoneDict == [none |-> TRUE, map |-> EmptyMap]

Dict(m) == [none |-> FALSE, map |-> m]

DictGet(m, k, default) == IF k \in DOMAIN m THEN m[k] ELSE default

DictSet(m, k, v) == [x \in DOMAIN m \cup {k} |-> IF x = k THEN v ELSE m[x]]

DictDel(m, ks) == [x \in DOMAIN m \ ks |-> m[x]]

\* ----------------------------------------------------------- the inputs
\* feature vectors (lists of numbers; here of one feature)
Features == {<<f>> : f \in 0..MaxFeature}

\* allowable_actions: some of the actions 0..MaxActions-1, in the
\* environment's fixed order
AllowableActions ==
    {s \in UNION {[1..a -> 0..(MaxActions - 1)] : a \in 0..MaxActions} :
        \A i \in 1..(Len(s) - 1) : s[i] < s[i + 1]}

Repeat(x, k) == [i \in 1..k |-> x]

Half == PyFloat(1, 2)

One == PyFloat(1, 1)

\* label vectors of policy samples: of one label and of MaxActions labels,
\* and one with an element that is not a number
LabelVectors ==
    {<<One>>, Repeat(Half, MaxActions), Append(Repeat(Half, MaxActions - 1), NoneLabel)}

PolicySamples ==
    {[sample_type |-> "policy", features |-> f, labels |-> l] :
        f \in Features, l \in LabelVectors}
    \cup {[sample_type |-> "value", features |-> <<0>>, labels |-> <<One>>]}

RECURSIVE Flatten(_)
Flatten(ss) == IF ss = <<>> THEN <<>> ELSE ss[1] \o Flatten(Tail(ss))

\* a run of one sample, MinSupport or MinSupport + 1 times
Blocks(S) == {Repeat(s, k) : s \in S, k \in {MinSupport, MinSupport + 1}}

SampleLists(S) == {Flatten(bs) : bs \in UNION {[1..b -> Blocks(S)] : b \in 0..MaxBlocks}}

\* =========================================================== NaivePolicy
\* lines 230-233: the loop over one sample's labels; st = [mass, weight,
\* raised, to_delete], to_delete being the keys the pruning pass deleted
RECURSIVE AccumulateLabels(_, _, _, _)
AccumulateLabels(st, features, labels, i) ==
    IF i > Len(labels) THEN st
    ELSE LET state_action == Append(features, i - 1)
             label == labels[i]
         IN IF ~IsNumber(label)
            THEN [st EXCEPT !.raised = TRUE]   \* float + None: TypeError
            ELSE AccumulateLabels(
                    [mass |-> DictSet(st.mass, state_action,
                                 PyAdd(DictGet(st.mass, state_action, PyFloat(0, 1)), label)),
                     weight |-> DictSet(st.weight, state_action,
                                 PyAdd(DictGet(st.weight, state_action, PyFloat(0, 1)), One)),
                     raised |-> FALSE, to_delete |-> {}],
                    features, labels, i + 1)

\* lines 224-233: fresh mappings, then the loop over the samples
RECURSIVE AccumulateSamples(_, _, _)
AccumulateSamples(st, samples, j) ==
    IF j > Len(samples) \/ st.raised THEN st
    ELSE IF samples[j].sample_type = "value"
         THEN AccumulateSamples(st, samples, j + 1)
         ELSE AccumulateSamples(
                 AccumulateLabels(st, samples[j].features, samples[j].labels, 1),
                 samples, j + 1)

\* weight-only deletion: the counterpart key is left in the mass mapping
PolicyPruneWeightOnly(st) ==
    LET to_delete == {k \in DOMAIN st.weight : PyLeq(st.weight[k], MinSupport)}
    IN [st EXCEPT !.weight = DictDel(st.weight, to_delete), !.to_delete = to_delete]

\* lines 235-242: delete the keys whose weight is <= 5 from both mappings
PolicyPrune(st) ==
    LET to_delete == {k \in DOMAIN st.weight : PyLeq(st.weight[k], MinSupport)}
    IN [st EXCEPT !.mass = DictDel(st.mass, to_delete),
                  !.weight = DictDel(st.weight, to_delete),
                  !.to_delete = to_delete]

\* lines 222-242: the mappings train leaves behind, and whether it raised
NaivePolicyTrainResult(samples) ==
    LET acc == AccumulateSamples([mass |-> EmptyMap, weight |-> EmptyMap,
                                  raised |-> FALSE, to_delete |-> {}], samples, 1)
    IN IF acc.raised THEN acc ELSE PolicyPrune(acc)

\* what train leaves behind for each training set
PolicyTrainOutcomes == {NaivePolicyTrainResult(samples) : samples \in SampleLists(PolicySamples)}

NaivePolicy_train ==
    \E r \in PolicyTrainOutcomes :
        /\ state_action_mass' = Dict(r.mass)
        /\ state_action_weight' = Dict(r.weight)
        /\ call' = [op |-> "NaivePolicy.train", raised |-> r.raised,
                    to_delete |-> r.to_delete]
        /\ UNCHANGED <<state_visits, state_wins, value_file, policy_file>>

\* lines 245-250: the try body; looks the keys up in order and stops at the
\* first failure.  err is "" (all found), "KeyError", "TypeError" (the
\* mapping is None) or "ZeroDivisionError"
RECURSIVE PolicyLookups(_, _, _, _, _, _)
PolicyLookups(mass, weight, features, allowable_actions, i, move_probabilities) ==
    IF i > Len(allowable_actions) THEN [err |-> "", ret |-> move_probabilities]
    ELSE LET state_action == Append(features, i - 1)
         IN IF mass.none THEN [err |-> "TypeError", ret |-> move_probabilities]
            ELSE IF state_action \notin DOMAIN mass.map
            THEN [err |-> "KeyError", ret |-> move_probabilities]
            ELSE IF weight.none THEN [err |-> "TypeError", ret |-> move_probabilities]
            ELSE IF state_action \notin DOMAIN weight.map
            THEN [err |-> "KeyError", ret |-> move_probabilities]
            ELSE IF weight.map[state_action].n = 0
            THEN [err |-> "ZeroDivisionError", ret |-> move_probabilities]
            ELSE PolicyLookups(mass, weight, features, allowable_actions, i + 1,
                    Append(move_probabilities,
                           PyTrueDiv(mass.map[state_action], weight.map[state_action])))

\* lines 27-28 and 254-255: [1.0 / len(allowable_actions)] * len(allowable_actions)
UniformList(allowable_actions) ==
    Repeat(PyTrueDiv(One, PyInt(Len(allowable_actions))), Len(allowable_actions))

\* a fallback that keeps the values found before the miss
NaivePolicyPredictBlend(mass, weight, features, allowable_actions) ==
    LET r == PolicyLookups(mass, weight, features, allowable_actions, 1, <<>>)
        u == UniformList(allowable_actions)
    IN IF r.err = "KeyError"
       THEN [raised |-> "", ret |-> r.ret \o SubSeq(u, Len(r.ret) + 1, Len(u))]
       ELSE [raised |-> r.err, ret |-> IF r.err = "" THEN r.ret ELSE <<>>]

\* a fallback that returns one uniform probability instead of one per action
NaivePolicyPredictShort(mass, weight, features, allowable_actions) ==
    LET r == PolicyLookups(mass, weight, features, allowable_actions, 1, <<>>)
    IN IF r.err = "KeyError"
       THEN [raised |-> "", ret |-> <<PyTrueDiv(One, PyInt(Len(allowable_actions)))>>]
       ELSE [raised |-> r.err, ret |-> IF r.err = "" THEN r.ret ELSE <<>>]

\* lines 244-255: only KeyError is caught; any other error propagates
NaivePolicyPredict(mass, weight, features, allowable_actions) ==
    LET r == PolicyLookups(mass, weight, features, allowable_actions, 1, <<>>)
    IN IF r.err = "KeyError"
       THEN [raised |-> "", ret |-> UniformList(allowable_actions)]
       ELSE [raised |-> r.err, ret |-> IF r.err = "" THEN r.ret ELSE <<>>]

NaivePolicy_predict ==
    \E features \in Features, allowable_actions \in AllowableActions :
        LET r == NaivePolicyPredict(state_action_mass, state_action_weight,
                                    features, allowable_actions)
        IN /\ call' = [op |-> "NaivePolicy.predict", features |-> features,
                       allowable_actions |-> allowable_actions,
                       raised |-> r.raised # "", error |-> r.raised,
                       rtype |-> "list", ret |-> r.ret]
           /\ UNCHANGED <<state_action_mass, state_action_weight, state_visits,
                          state_wins, value_file, policy_file>>

\* ========================================================= UniformPolicy
\* lines 23-28: {} for no allowable actions, else the uniform list
UniformPolicyPredict(features, allowable_actions) ==
    IF Len(allowable_actions) = 0
    THEN [rtype |-> "dict", ret |-> <<>>]
    ELSE [rtype |-> "list", ret |-> UniformList(allowable_actions)]

UniformPolicy_predict ==
    \E features \in Features, allowable_actions \in AllowableActions :
        LET r == UniformPolicyPredict(features, allowable_actions)
        IN /\ call' = [op |-> "UniformPolicy.predict", features |-> features,
                       allowable_actions |-> allowable_actions,
                       raised |-> FALSE, error |-> "",
                       rtype |-> r.rtype, ret |-> r.ret]
           /\ UNCHANGED <<state_action_mass, state_action_weight, state_visits,
                          state_wins, value_file, policy_file>>

\* ============================================================ GBDTPolicy
\* numpy.float32 of a number whose value single precision holds exactly
ToFloat32(x) == [x EXCEPT !.t = "float32"]

\* lines 114-118: one row per allowable action, [action] ++ agent_features
ToPredict(agent_features, allowable_actions) ==
    [i \in 1..Len(allowable_actions) |->
        <<ToFloat32(PyInt(allowable_actions[i]))>>
        \o [j \in 1..Len(agent_features) |-> ToFloat32(PyInt(agent_features[j]))]]

\* line 127: scores / scores.sum(); numpy divides by zero without raising
\* and the elements are then nan
Normalize(move_probabilities) ==
    LET total == SumSeq(move_probabilities)
    IN [i \in 1..Len(move_probabilities) |->
          IF total.n = 0 THEN NaN
          ELSE [PyTrueDiv(move_probabilities[i], total) EXCEPT !.t = "float32"]]

\* the scores a cross_entropy booster gives: strictly between 0 and 1
Scores == {Num("float32", 1, 4), Num("float32", 3, 4)}

\* lines 101-128, for the scores the predictor returned for the rows
GBDTPolicyPredict(agent_features, allowable_actions, scores) ==
    IF Len(allowable_actions) = 1 THEN <<One>>
    ELSE Normalize(scores)

GBDTPolicy_predict ==
    \E agent_features \in Features, allowable_actions \in AllowableActions :
        \E scores \in [DOMAIN ToPredict(agent_features, allowable_actions) -> Scores] :
            /\ call' = [op |-> "GBDTPolicy.predict", features |-> agent_features,
                        allowable_actions |-> allowable_actions,
                        raised |-> FALSE, error |-> "", rtype |-> "list",
                        ret |-> GBDTPolicyPredict(agent_features, allowable_actions, scores)]
            /\ UNCHANGED <<state_action_mass, state_action_weight, state_visits,
                           state_wins, value_file, policy_file>>

\* list(d.items()): the (key, value) pairs; json.dumps writes a key tuple as
\* an array and a number as an int or a float literal, which json.loads
\* reads back as a list and as an int or a float
Items(d) == {<<k, d.map[k]>> : k \in DOMAIN d.map}

\* float(value)
FloatOf(x) == [x EXCEPT !.t = "float"]

\* lines 219-220: {tuple(key): float(value) for (key, value) in pairs}
LoadFloatItems(pairs) ==
    Dict([k \in {p[1] : p \in pairs} |-> FloatOf((CHOOSE p \in pairs : p[1] = k)[2])])

NoFile == [exists |-> FALSE]

\* lines 208-214: None.items() raises AttributeError before the file is opened
NaivePolicy_save ==
    /\ IF state_action_mass.none \/ state_action_weight.none
       THEN /\ call' = [op |-> "NaivePolicy.save", raised |-> TRUE, error |-> "AttributeError"]
            /\ UNCHANGED policy_file
       ELSE /\ call' = [op |-> "NaivePolicy.save", raised |-> FALSE, error |-> ""]
            /\ policy_file' = [exists |-> TRUE,
                               state_action_mass |-> Items(state_action_mass),
                               state_action_weight |-> Items(state_action_weight)]
    /\ UNCHANGED <<state_action_mass, state_action_weight, state_visits,
                   state_wins, value_file>>

\* lines 216-220: open() raises FileNotFoundError when nothing was saved
NaivePolicy_load ==
    /\ IF ~policy_file.exists
       THEN /\ call' = [op |-> "NaivePolicy.load", raised |-> TRUE, error |-> "FileNotFoundError"]
            /\ UNCHANGED <<state_action_mass, state_action_weight>>
       ELSE /\ call' = [op |-> "NaivePolicy.load", raised |-> FALSE, error |-> ""]
            /\ state_action_mass' = LoadFloatItems(policy_file.state_action_mass)
            /\ state_action_weight' = LoadFloatItems(policy_file.state_action_weight)
    /\ UNCHANGED <<state_visits, state_wins, value_file, policy_file>>

\* ------------------------------------------------- the policy estimators
NoCall == [op |-> "", raised |-> FALSE]

\* NaivePolicy(), NaiveValue(): the fields default to None
Init ==
    /\ state_action_mass = NoneDict
    /\ state_action_weight = NoneDict
    /\ state_visits = NoneDict
    /\ state_wins = NoneDict
    /\ value_file = NoFile
    /\ policy_file = NoFile
    /\ call = NoCall

NextPolicy ==
    \/ NaivePolicy_train
    \/ NaivePolicy_predict
    \/ UniformPolicy_predict
    \/ GBDTPolicy_predict

SpecPolicy == Init /\ [][NextPolicy]_vars

\* training and persistence of the tabular policy estimator
NextPolicyFile ==
    \/ NaivePolicy_train
    \/ NaivePolicy_save
    \/ NaivePolicy_load

SpecPolicyFile == Init /\ [][NextPolicyFile]_vars

\* ============================================================ NaiveValue
\* (features, label) training pairs
ValueSamples == {[features |-> f, label |-> PyInt(l)] : f \in Features, l \in {-1, 1}}

\* the sums of labels a mapping of wins can hold: whole or fractional
WinSums == {PyInt(3), PyFloat(5, 2), PyFloat(-5, 2)}

\* the mappings NaiveValue(state_visits=..., state_wins=...) is built with
ValueMappings ==
    UNION {[visits : [K -> {PyInt(MinSupport + 1)}], wins : [K -> WinSums]] :
             K \in SUBSET Features}

\* batches of feature rows, each row a tuple
FeatureBatches == UNION {[1..n -> Features] : n \in 0..MaxBatch}

\* lines 153-154: train raises RuntimeError("Broken") before anything else
NaiveValue_train ==
    \E samples \in SampleLists(ValueSamples) :
        /\ call' = [op |-> "NaiveValue.train", samples |-> samples,
                    raised |-> TRUE, error |-> "RuntimeError"]
        /\ UNCHANGED <<state_action_mass, state_action_weight, state_visits,
                       state_wins, value_file, policy_file>>

\* key == tuple(features) for a key of numbers and a batch of row tuples:
\* tuples are equal element by element, and a number never equals a tuple
KeyEqualsBatch(key, features) ==
    Len(key) = Len(features) /\ \A i \in 1..Len(key) : FALSE

\* line 196, d[tuple(features)]: "TypeError" (d is None), "KeyError", or found
LookupBatch(d, features) ==
    IF d.none THEN [err |-> "TypeError", value |-> PyInt(0)]
    ELSE IF \A k \in DOMAIN d.map : ~KeyEqualsBatch(k, features)
    THEN [err |-> "KeyError", value |-> PyInt(0)]
    ELSE [err |-> "", value |-> d.map[CHOOSE k \in DOMAIN d.map : KeyEqualsBatch(k, features)]]

\* lines 195-199: one pass of the loop; the key does not depend on the row
ValueOfRow(wins, visits, features, board_features) ==
    LET w == LookupBatch(wins, features)
        v == LookupBatch(visits, features)
    IN IF w.err = "TypeError" THEN [err |-> "TypeError", value |-> PyInt(0)]
       ELSE IF w.err = "KeyError" THEN [err |-> "", value |-> PyInt(0)]
       ELSE IF v.err = "TypeError" THEN [err |-> "TypeError", value |-> PyInt(0)]
       ELSE IF v.err = "KeyError" THEN [err |-> "", value |-> PyInt(0)]
       ELSE IF v.value.n = 0 THEN [err |-> "", value |-> PyInt(0)]
       ELSE [err |-> "", value |-> PyTrueDiv(w.value, v.value)]

\* lines 191-200
NaiveValuePredict(wins, visits, features) ==
    LET rows == [i \in 1..Len(features) |-> ValueOfRow(wins, visits, features, features[i])]
    IN IF \E i \in 1..Len(features) : rows[i].err # ""
       THEN [raised |-> "TypeError", ret |-> <<>>]
       ELSE [raised |-> "", ret |-> [i \in 1..Len(features) |-> rows[i].value]]

NaiveValue_predict ==
    \E features \in FeatureBatches :
        LET r == NaiveValuePredict(state_wins, state_visits, features)
        IN /\ call' = [op |-> "NaiveValue.predict", features |-> features,
                       raised |-> r.raised # "", error |-> r.raised,
                       rtype |-> "tuple", ret |-> r.ret]
           /\ UNCHANGED <<state_action_mass, state_action_weight, state_visits,
                          state_wins, value_file, policy_file>>

\* int(value): truncation towards zero
IntOf(x) ==
    PyInt(IF x.n < 0 THEN -((-x.n) \div x.d) ELSE x.n \div x.d)

\* lines 150-151: {tuple(key): int(value) for (key, value) in pairs}
LoadIntItems(pairs) ==
    Dict([k \in {p[1] : p \in pairs} |-> IntOf((CHOOSE p \in pairs : p[1] = k)[2])])

\* lines 136-145: None.items() raises AttributeError before the file is opened
NaiveValue_save ==
    /\ IF state_visits.none \/ state_wins.none
       THEN /\ call' = [op |-> "NaiveValue.save", raised |-> TRUE, error |-> "AttributeError"]
            /\ UNCHANGED value_file
       ELSE /\ call' = [op |-> "NaiveValue.save", raised |-> FALSE, error |-> ""]
            /\ value_file' = [exists |-> TRUE,
                              state_visits |-> Items(state_visits),
                              state_wins |-> Items(state_wins)]
    /\ UNCHANGED <<state_action_mass, state_action_weight, state_visits,
                   state_wins, policy_file>>

\* lines 147-151: open() raises FileNotFoundError when nothing was saved
NaiveValue_load ==
    /\ IF ~value_file.exists
       THEN /\ call' = [op |-> "NaiveValue.load", raised |-> TRUE, error |-> "FileNotFoundError"]
            /\ UNCHANGED <<state_visits, state_wins>>
       ELSE /\ call' = [op |-> "NaiveValue.load", raised |-> FALSE, error |-> ""]
            /\ state_visits' = LoadIntItems(value_file.state_visits)
            /\ state_wins' = LoadIntItems(value_file.state_wins)
    /\ UNCHANGED <<state_action_mass, state_action_weight, value_file, policy_file>>

\* NaiveValue() or NaiveValue(state_visits=..., state_wins=...)
InitValue ==
    /\ state_action_mass = NoneDict
    /\ state_action_weight = NoneDict
    /\ \/ state_visits = NoneDict /\ state_wins = NoneDict
       \/ \E m \in ValueMappings :
             state_visits = Dict(m.visits) /\ state_wins = Dict(m.wins)
    /\ value_file = NoFile
    /\ policy_file = NoFile
    /\ call = NoCall

NextValue ==
    \/ NaiveValue_train
    \/ NaiveValue_predict
    \/ NaiveValue_save
    \/ NaiveValue_load

SpecValue == InitValue /\ [][NextValue]_vars

\* ================================== GBDTPolicy.extract_policy_observations
\* lines 67-70: the rows and labels one state contributes, from label i on
RECURSIVE ObservationsOfRow(_, _, _)
ObservationsOfRow(row, labels, i) ==
    IF i > Len(labels) THEN [features |-> <<>>, labels |-> <<>>]
    ELSE LET rest == ObservationsOfRow(row, labels, i + 1)
         IN [features |-> <<(<<PyInt(i - 1)>> \o row)>> \o rest.features,
             labels |-> <<labels[i]>> \o rest.labels]

\* the action identifier appended to the features instead of prepended
RECURSIVE ExtractPolicyObservationsAppend(_, _)
ExtractPolicyObservationsAppend(features, labels) ==
    IF features = <<>> THEN [features |-> <<>>, labels |-> <<>>]
    ELSE LET first == ObservationsOfRow(features[1], labels[1], 1)
             rest == ExtractPolicyObservationsAppend(Tail(features), Tail(labels))
         IN [features |-> [i \in 1..Len(first.features) |->
                             [j \in 1..Len(first.features[i]) |->
                                ToFloat32(IF j = Len(first.features[i])
                                          THEN first.features[i][1]
                                          ELSE first.features[i][j + 1])]]
                          \o rest.features,
             labels |-> [i \in 1..Len(first.labels) |-> ToFloat32(first.labels[i])]
                        \o rest.labels]

\* lines 57-75: the observations of every state in input order, as float32
RECURSIVE ExtractPolicyObservations(_, _)
ExtractPolicyObservations(features, labels) ==
    IF features = <<>> THEN [features |-> <<>>, labels |-> <<>>]
    ELSE LET first == ObservationsOfRow(features[1], labels[1], 1)
             rest == ExtractPolicyObservations(Tail(features), Tail(labels))
         IN [features |-> [i \in 1..Len(first.features) |->
                             [j \in 1..Len(first.features[i]) |->
                                ToFloat32(first.features[i][j])]]
                          \o rest.features,
             labels |-> [i \in 1..Len(first.labels) |-> ToFloat32(first.labels[i])]
                        \o rest.labels]

\* feature rows of two features: [0.0, 1.0] and [1.0, 0.0]
ObservedFeatures == {<<PyFloat(0, 1), PyFloat(1, 1)>>, <<PyFloat(1, 1), PyFloat(0, 1)>>}

\* label vectors of 0 to MaxActions labels
ObservedLabels == UNION {[1..a -> {Half, One}] : a \in 0..MaxActions}

GBDTPolicy_extract_policy_observations ==
    /\ call.op = "GBDTPolicy.extract_policy_observations"
    /\ ~call.returned
    /\ LET r == ExtractPolicyObservations(call.features, call.labels)
       IN call' = [call EXCEPT !.returned = TRUE,
                               !.observation_features = r.features,
                               !.observation_labels = r.labels]
    /\ UNCHANGED <<state_action_mass, state_action_weight, state_visits,
                   state_wins, value_file, policy_file>>

\* a call of extract_policy_observations on N states, about to run
InitExtract ==
    /\ state_action_mass = NoneDict
    /\ state_action_weight = NoneDict
    /\ state_visits = NoneDict
    /\ state_wins = NoneDict
    /\ value_file = NoFile
    /\ policy_file = NoFile
    /\ \E n \in 0..MaxBatch :
          \E features \in [1..n -> ObservedFeatures], labels \in [1..n -> ObservedLabels] :
              call = [op |-> "GBDTPolicy.extract_policy_observations",
                      features |-> features, labels |-> labels,
                      raised |-> FALSE, returned |-> FALSE,
                      observation_features |-> <<>>, observation_labels |-> <<>>]

NextExtract == GBDTPolicy_extract_policy_observations

SpecExtract == InitExtract /\ [][NextExtract]_vars

\* ================================================================ claims
IsPolicyPredict ==
    call.op \in {"NaivePolicy.predict", "UniformPolicy.predict", "GBDTPolicy.predict"}

PolicyTrained == ~state_action_mass.none /\ ~state_action_weight.none

\* the key (features..., i) is in both mappings of the tabular policy estimator
KeyPresent(features, i) ==
    /\ Append(features, i) \in DOMAIN state_action_mass.map
    /\ Append(features, i) \in DOMAIN state_action_weight.map

\* a sequence of numbers equal to [1.0]
IsSingletonOne(ret) == Len(ret) = 1 /\ NumEq(ret[1], One)

\* C1: whenever allowable_actions has exactly one element, a policy predict
\* (boosted-tree, or tabular on trained mappings whatever they hold) returns
\* [1.0].
C1_SingleActionIsCertain ==
    (IsPolicyPredict /\ Len(call.allowable_actions) = 1
        /\ (call.op = "NaivePolicy.predict" => PolicyTrained))
    => (~call.raised /\ IsSingletonOne(call.ret))

\* C2: tabular policy predict on trained mappings returns exactly
\* [1/A, ..., 1/A] and raises nothing whenever the key of at least one
\* position 0..A-1 is missing, even if the keys of other positions are there.
C2_MissingKeyGivesUniform ==
    (call.op = "NaivePolicy.predict" /\ PolicyTrained
        /\ \E i \in 0..(Len(call.allowable_actions) - 1) : ~KeyPresent(call.features, i))
    => /\ ~call.raised
       /\ call.ret = [i \in 1..Len(call.allowable_actions) |->
                        PyFloat(1, Len(call.allowable_actions))]

\* C2 witness: a fallback with the key of position 0 present and the key of
\* position 1 missing.
C2_Witness ==
    /\ call.op = "NaivePolicy.predict" /\ PolicyTrained
    /\ Len(call.allowable_actions) = 2
    /\ KeyPresent(call.features, 0)
    /\ ~KeyPresent(call.features, 1)
    /\ ~call.raised

\* the number of samples whose key is the given feature tuple
RECURSIVE Occurrences(_, _)
Occurrences(samples, key) ==
    IF samples = <<>> THEN 0
    ELSE (IF samples[1].features = key THEN 1 ELSE 0) + Occurrences(Tail(samples), key)

\* C3: a call of the tabular value estimator's train completes and leaves
\* the estimator trained, with every key that occurs exactly MinSupport + 1
\* times in the samples present and every key that occurs MinSupport times
\* or fewer absent.
C3_ValueTrainPrunes ==
    call.op = "NaiveValue.train"
    => /\ ~call.raised
       /\ ~state_visits.none /\ ~state_wins.none
       /\ \A key \in Features :
            /\ Occurrences(call.samples, key) = MinSupport + 1
                 => key \in DOMAIN state_visits.map
            /\ Occurrences(call.samples, key) <= MinSupport
                 => key \notin DOMAIN state_visits.map

\* C4: tabular value predict on trained mappings raises nothing and returns
\* one value per row, in order: wins[key] / visits[key] for a row whose key
\* is in the mappings, 0.0 for a row whose key is not.
C4_ValuePredictPerRow ==
    (call.op = "NaiveValue.predict" /\ ~state_visits.none /\ ~state_wins.none)
    => /\ ~call.raised
       /\ Len(call.ret) = Len(call.features)
       /\ \A i \in 1..Len(call.features) :
            LET key == call.features[i]
            IN IF key \in DOMAIN state_wins.map /\ key \in DOMAIN state_visits.map
               THEN NumEq(call.ret[i],
                          PyTrueDiv(state_wins.map[key], state_visits.map[key]))
               ELSE NumEq(call.ret[i], PyFloat(0, 1))

\* C5: a distribution a policy predict returns for at least one allowable
\* action sums to 1.0, whatever samples the tabular estimator was trained on.
C5_DistributionSumsToOne ==
    (IsPolicyPredict /\ Len(call.allowable_actions) >= 1 /\ ~call.raised)
    => NumEq(SumSeq(call.ret), One)

\* C6: after a train that completes, the mass and the weight mapping of the
\* tabular policy estimator have the same key set.
C6_SameKeySets ==
    (call.op = "NaivePolicy.train" /\ ~call.raised)
    => /\ PolicyTrained
       /\ DOMAIN state_action_mass.map = DOMAIN state_action_weight.map

\* C6 witness: a completed train whose pruning pass deleted a key and kept
\* another.
C6_Witness ==
    /\ call.op = "NaivePolicy.train" /\ ~call.raised
    /\ call.to_delete # {}
    /\ DOMAIN state_action_weight.map # {}

\* C7: after a load of the file save wrote, both mappings of the tabular
\* value estimator hold exactly the saved pairs: same keys, same values, same
\* numeric types.
C7_ValueRoundTrip ==
    (call.op = "NaiveValue.load" /\ ~call.raised)
    => /\ Items(state_visits) = value_file.state_visits
       /\ Items(state_wins) = value_file.state_wins

\* C8: a train of the tabular policy estimator that raises leaves both
\* mappings as they were before the call.
C8_TrainAllOrNothing ==
    [][(call'.op = "NaivePolicy.train" /\ call'.raised)
         => UNCHANGED <<state_action_mass, state_action_weight>>]_vars

\* the number of labels of the states before state n
RECURSIVE LabelsBefore(_, _)
LabelsBefore(labels, n) ==
    IF n <= 1 THEN 0 ELSE Len(labels[n - 1]) + LabelsBefore(labels, n - 1)

\* two rows of numbers equal element by element
RowEq(a, b) == Len(a) = Len(b) /\ \A j \in 1..Len(a) : NumEq(a[j], b[j])

\* C9: extract_policy_observations returns sum(A_n) rows and as many labels;
\* the rows of state n follow those of the states before it, and its i-th
\* row (i from 0) is [i] followed by features[n], with label labels[n][i].
C9_ExtractPolicyObservations ==
    (call.op = "GBDTPolicy.extract_policy_observations" /\ call.returned)
    => /\ Len(call.observation_features) = LabelsBefore(call.labels, Len(call.labels) + 1)
       /\ Len(call.observation_labels) = Len(call.observation_features)
       /\ \A n \in 1..Len(call.features) : \A i \in 1..Len(call.labels[n]) :
            LET at == LabelsBefore(call.labels, n) + i
            IN /\ RowEq(call.observation_features[at],
                        <<PyInt(i - 1)>> \o call.features[n])
               /\ NumEq(call.observation_labels[at], call.labels[n][i])

\* C9 witness: two states with label vectors of different lengths, after a
\* state with none.
C9_Witness ==
    /\ call.op = "GBDTPolicy.extract_policy_observations" /\ call.returned
    /\ Len(call.labels) >= 2
    /\ \E n \in 1..Len(call.labels) : \E m \in 1..Len(call.labels) :
          Len(call.labels[n]) >= 2 /\ Len(call.labels[m]) = 0
    /\ Len(call.observation_features) >= 2

\* C10: for non-empty allowable_actions a policy predict (boosted-tree,
\* uniform, or tabular on trained mappings) returns a list of exactly
\* len(allowable_actions) elements.
C10_OnePerAction ==
    (IsPolicyPredict /\ Len(call.allowable_actions) >= 1
        /\ (call.op = "NaivePolicy.predict" => PolicyTrained))
    => /\ ~call.raised
       /\ call.rtype = "list"
       /\ Len(call.ret) = Len(call.allowable_actions)

\* C10 witness: the tabular estimator answering two actions from its
\* mappings, every key present.
C10_Witness ==
    /\ call.op = "NaivePolicy.predict" /\ PolicyTrained
    /\ Len(call.allowable_actions) = 2
    /\ \A i \in 0..1 : KeyPresent(call.features, i)
    /\ ~call.raised

====
